---- MODULE Spec2Model ----
(***************************************************************************)
(* Model of gseapy/stats.py: hypergeometric enrichment scoring             *)
(* (calc_pvalues) and multiple-testing correction (fdrcorrection,          *)
(* multiple_testing_correction).                                           *)
(*                                                                         *)
(* The three functions are pure; the state machine is a caller that makes  *)
(* one call with arguments drawn from bounded sets and receives the        *)
(* function's outcome (a return value or a raised exception).              *)
(*                                                                         *)
(* numpy float64 values are modelled as binary floating-point numbers of   *)
(* reduced width: a value v stands for v / 2^FracBits, every arithmetic    *)
(* result is rounded to Precision significant bits, round-half-to-even,    *)
(* as IEEE-754 does with 53 bits.  NaN is the distinguished value -1.      *)
(***************************************************************************)
EXTENDS Integers, Sequences, FiniteSets, TLC

(* ------------------------------ bounds --------------------------------- *)
Precision == 4
FracBits == 10
MaxLen == 3
MaxQueryLen == 3
MaxCatLen == 1
MaxCats == 2
MaxBackground == 3

(* --------------------------- float64 model ----------------------------- *)
One == 2 ^ FracBits
NaN == -1
None == -2

isnan(v) == v = NaN

float(i) == i * One

RoundHalfEven(n, d) ==
    LET q == n \div d
        r == n % d
    IN  IF 2 * r < d THEN q
        ELSE IF 2 * r > d THEN q + 1
        ELSE IF q % 2 = 0 THEN q ELSE q + 1

RECURSIVE Ulp(_, _, _)
Ulp(n, d, u) == IF n < u * (2 ^ Precision) * d THEN u ELSE Ulp(n, d, 2 * u)

\* the float nearest to the non-negative rational n / d (in units of 2^-FracBits)
FRound(n, d) == LET u == Ulp(n, d, 1) IN RoundHalfEven(n, d * u) * u

FMul(a, b) == FRound(a * b, One)
FDiv(a, b) == FRound(a * One, b)

(* ---------------------------- input domains ---------------------------- *)
PVals == {0, One \div 4, One \div 2, (5 * One) \div 8, One}
\* the literal 0.05 of the signatures, as the nearest float
DefaultAlpha == FRound(5 * One, 100)
Alphas == {DefaultAlpha, One \div 2, (7 * One) \div 8}
Methods == {"bonferroni", "benjamini-hochberg", "holm"}
Genes == {"A", "B"}
\* category names as strings of character codes: "a", "ab", "b"
CategoryNames == {<<1>>, <<1, 2>>, <<2>>}

SeqsUpTo(S, n) == UNION {[1..k -> S] : k \in 0..n}

Range(s) == {s[i] : i \in DOMAIN s}

VARIABLES fn, ps, alpha, method, query, gene_sets, background, pc, locals, ret

vars == <<fn, ps, alpha, method, query, gene_sets, background, pc, locals, ret>>

(* ----------------------------- fdrcorrection --------------------------- *)
\* np.argsort: every index order that sorts pvals ascending (the order among
\* equal values is not fixed by the default sort kind)
argsort(pvals) ==
    {s \in [1..Len(pvals) -> 1..Len(pvals)] :
        /\ \A i, j \in 1..Len(pvals) : i # j => s[i] # s[j]
        /\ \A i \in 1..(Len(pvals) - 1) : pvals[s[i]] <= pvals[s[i + 1]]}

take(a, ind) == [i \in 1..Len(ind) |-> a[ind[i]]]

_ecdf(x) == [i \in 1..Len(x) |-> FDiv(float(i), float(Len(x)))]

reject_test_strict(pvals_sorted, ecdffactor, a) ==
    [i \in 1..Len(pvals_sorted) |-> pvals_sorted[i] < FMul(ecdffactor[i], a)]

reject_test(pvals_sorted, ecdffactor, a) ==
    [i \in 1..Len(pvals_sorted) |-> pvals_sorted[i] <= FMul(ecdffactor[i], a)]

SetMax(S) == CHOOSE m \in S : \A x \in S : x <= m

reject_stepup_skipped(reject) == reject

\* lines 75-77; rejectmax is the 1-based position of the last TRUE
reject_stepup(reject) ==
    IF \E i \in 1..Len(reject) : reject[i]
    THEN LET rejectmax == SetMax({i \in 1..Len(reject) : reject[i]})
         IN  [i \in 1..Len(reject) |-> IF i < rejectmax THEN TRUE ELSE reject[i]]
    ELSE reject

Reverse(s) == [i \in 1..Len(s) |-> s[Len(s) + 1 - i]]

Min2(a, b) == IF b < a THEN b ELSE a

RECURSIVE minimum_accumulate(_)
minimum_accumulate(s) ==
    IF Len(s) <= 1 THEN s
    ELSE LET front == minimum_accumulate(SubSeq(s, 1, Len(s) - 1))
         IN  Append(front, Min2(front[Len(front)], s[Len(s)]))

running_minimum_forward(raw) == minimum_accumulate(raw)

\* np.minimum.accumulate(raw[::-1])[::-1]
running_minimum(raw) == Reverse(minimum_accumulate(Reverse(raw)))

pvals_corrected_raw(pvals_sorted, ecdffactor) ==
    [i \in 1..Len(pvals_sorted) |-> FDiv(pvals_sorted[i], ecdffactor[i])]

clamp(s) == [i \in 1..Len(s) |-> IF s[i] > One THEN One ELSE s[i]]

scatter_in_sorted_order(a, ind) == a

\* out[ind] = a  (lines 82-83 and 85-86)
scatter(a, ind) ==
    [i \in 1..Len(a) |-> a[CHOOSE j \in 1..Len(ind) : ind[j] = i]]

fdrcorrection(pvals, a, pvals_sortind) ==
    LET pvals_sorted == take(pvals, pvals_sortind)
        ecdffactor == _ecdf(pvals_sorted)
        reject == reject_stepup(reject_test(pvals_sorted, ecdffactor, a))
        raw == pvals_corrected_raw(pvals_sorted, ecdffactor)
        pvals_corrected == clamp(running_minimum(raw))
    IN  [reject_ |-> scatter(reject, pvals_sortind),
         pvals_corrected_ |-> scatter(pvals_corrected, pvals_sortind)]

(* ---------------------- multiple_testing_correction -------------------- *)
\* positions of the non-NaN entries, ascending (boolean-mask indexing)
RECURSIVE nonzero(_, _)
nonzero(mask, i) ==
    IF i > Len(mask) THEN <<>>
    ELSE IF mask[i] THEN <<i>> \o nonzero(mask, i + 1)
    ELSE nonzero(mask, i + 1)

\* a[mask] = vals : vals[j] goes to the j-th TRUE position of mask
put_mask(a, mask, vals) ==
    LET idx == nonzero(mask, 1)
    IN  [i \in 1..Len(a) |->
            IF mask[i] THEN vals[CHOOSE j \in 1..Len(idx) : idx[j] = i] ELSE a[i]]

\* a boolean stored into a float64 array
bool_as_float(b) == IF b THEN One ELSE 0

bonferroni_q_clamped(p) ==
    [i \in 1..Len(p) |-> Min2(One, FMul(p[i], float(Len(p))))]

\* p * len(p)
bonferroni_q(p) == [i \in 1..Len(p) |-> FMul(p[i], float(Len(p)))]

unknown_method_ignored(p_, meth) == [outcome |-> "return", q |-> p_, rej |-> p_]

\* lines 109-110
unknown_method(p_, meth) == [outcome |-> "raise", exc |-> "ValueError", arg |-> meth]

multiple_testing_correction(ps_, a, meth, pvals_sortind) ==
    LET p_ == ps_
        mask == [i \in 1..Len(p_) |-> ~isnan(p_[i])]
        p == take(p_, nonzero(mask, 1))
    IN  IF meth = "bonferroni" THEN
            LET q == put_mask(p_, mask, bonferroni_q(p))
                rej == put_mask(p_, mask,
                         [i \in 1..Len(p) |->
                             bool_as_float(take(q, nonzero(mask, 1))[i] < a)])
            IN  [outcome |-> "return", q |-> q, rej |-> rej]
        ELSE IF meth = "benjamini-hochberg" THEN
            LET r == fdrcorrection(p, a, pvals_sortind)
                rej == put_mask(p_, mask,
                         [i \in 1..Len(p) |-> bool_as_float(r.reject_[i])])
                q == put_mask(p_, mask, r.pvals_corrected_)
            IN  [outcome |-> "return", q |-> q, rej |-> rej]
        ELSE unknown_method(p_, meth)

(* ------------------------------ calc_pvalues --------------------------- *)
RECURSIVE Choose(_, _)
Choose(n, k) ==
    IF k < 0 \/ k > n THEN 0
    ELSE IF k = 0 THEN 1
    ELSE (Choose(n - 1, k - 1) * n) \div k

RECURSIVE SumPmf(_, _, _, _, _)
\* numerator of P(lo <= X <= hi), denominator Choose(M, N)
SumPmf(lo, hi, M, n, N) ==
    IF lo > hi THEN 0
    ELSE Choose(n, lo) * Choose(M - n, N - lo) + SumPmf(lo + 1, hi, M, n, N)

\* scipy.stats.hypergeom.sf(k, M, n, N) as the library evaluates it: nan when
\* the shape parameters fail its argument check (M > 0, 0 <= n <= M,
\* 0 <= N <= M), 1.0 below the support max(N-(M-n), 0), 0.0 at or above the
\* upper end min(n, N), and P(X > k) rounded to a float otherwise
hypergeom_sf(k, M, n, N) ==
    IF ~(M > 0 /\ n >= 0 /\ N >= 0 /\ n <= M /\ N <= M) THEN NaN
    ELSE LET a == IF N - (M - n) > 0 THEN N - (M - n) ELSE 0
             b == IF n < N THEN n ELSE N
         IN  IF k < a THEN One
             ELSE IF k >= b THEN 0
             ELSE FRound(SumPmf(k + 1, b, M, n, N) * One, Choose(M, N))

\* str < str in Python: lexicographic on the character codes
RECURSIVE LexLess(_, _)
LexLess(s, t) ==
    IF Len(t) = 0 THEN FALSE
    ELSE IF Len(s) = 0 THEN TRUE
    ELSE IF Head(s) < Head(t) THEN TRUE
    ELSE IF Head(s) > Head(t) THEN FALSE
    ELSE LexLess(Tail(s), Tail(t))

RECURSIVE Insert(_, _)
Insert(x, s) ==
    IF Len(s) = 0 THEN <<x>>
    ELSE IF LexLess(x, Head(s)) THEN <<x>> \o s
    ELSE <<Head(s)>> \o Insert(x, Tail(s))

RECURSIVE sorted(_)
sorted(s) == IF Len(s) = 0 THEN <<>> ELSE Insert(Head(s), sorted(Tail(s)))

\* gene_sets is the dict as its items in iteration order: <<name, members>>
keys(gs) == [i \in 1..Len(gs) |-> gs[i][1]]

get(gs, s) == gs[CHOOSE i \in 1..Len(gs) : gs[i][1] = s][2]

draw_size(q) == Len(q)

DefaultBackground == 20000

bg_num_of(bg) == IF bg = None THEN DefaultBackground ELSE bg

subsets_unsorted(gs) == keys(gs)

subsets_of(gs) == sorted(keys(gs))

vals_of(q, gs, bg) ==
    LET k == draw_size(q)
        bg_num == bg_num_of(bg)
        queryset == Range(q)
        subsets == subsets_of(gs)
    IN  [i \in 1..Len(subsets) |->
            LET category == get(gs, subsets[i])
                m == Len(category)
                hits == queryset \cap Range(category)
                x == Cardinality(hits)
            IN  <<hypergeom_sf(x - 1, bg_num, m, k), x, m, hits>>]

\* zip(*vals): one tuple per column; no column at all when vals is empty
zip(vals) ==
    IF Len(vals) = 0 THEN <<>>
    ELSE [c \in 1..4 |-> [i \in 1..Len(vals) |-> vals[i][c]]]

calc_pvalues(q, gs, bg) == zip(vals_of(q, gs, bg))

(* ------------------------------ the caller ----------------------------- *)
GeneSetDicts ==
    {gs \in UNION {[1..n -> CategoryNames \X SeqsUpTo(Genes, MaxCatLen)] :
                      n \in 1..MaxCats} :
        \A i, j \in 1..Len(gs) : i # j => gs[i][1] # gs[j][1]}

\* the background holds at least every known identifier; the call always
\* passes a size (the default of 20000 is beyond what the sums can enumerate)
Backgrounds == Cardinality(Genes)..MaxBackground

NoLocals == [pvals_sortind |-> <<>>, k |-> 0, bg_num |-> 0, subsets |-> <<>>]

Pending == [outcome |-> "pending"]

InitFdrcorrection ==
    /\ fn = "fdrcorrection"
    /\ ps \in SeqsUpTo(PVals, MaxLen)
    /\ alpha \in Alphas
    /\ method = "" /\ query = <<>> /\ gene_sets = <<>> /\ background = None

InitMultipleTestingCorrection ==
    /\ fn = "multiple_testing_correction"
    /\ ps \in SeqsUpTo(PVals \cup {NaN}, MaxLen)
    /\ alpha \in Alphas
    /\ method \in Methods
    /\ query = <<>> /\ gene_sets = <<>> /\ background = None

InitCalcPvalues ==
    /\ fn = "calc_pvalues"
    /\ query \in SeqsUpTo(Genes, MaxQueryLen)
    /\ gene_sets \in GeneSetDicts
    /\ background \in Backgrounds
    /\ ps = <<>> /\ alpha = 0 /\ method = ""

Init ==
    /\ \/ InitFdrcorrection
       \/ InitMultipleTestingCorrection
       \/ InitCalcPvalues
    /\ pc = "called"
    /\ locals = NoLocals
    /\ ret = Pending

CallFdrcorrection ==
    /\ pc = "called" /\ fn = "fdrcorrection"
    /\ \E pvals_sortind \in argsort(ps) :
          LET r == fdrcorrection(ps, alpha, pvals_sortind)
          IN  /\ ret' = [outcome |-> "return", reject_ |-> r.reject_,
                         pvals_corrected_ |-> r.pvals_corrected_]
              /\ locals' = [locals EXCEPT !.pvals_sortind = pvals_sortind]
    /\ pc' = "done"
    /\ UNCHANGED <<fn, ps, alpha, method, query, gene_sets, background>>

CallMultipleTestingCorrection ==
    /\ pc = "called" /\ fn = "multiple_testing_correction"
    /\ LET p == take(ps, nonzero([i \in 1..Len(ps) |-> ~isnan(ps[i])], 1))
       IN  \E pvals_sortind \in
                 IF method = "benjamini-hochberg" THEN argsort(p) ELSE {<<>>} :
              /\ ret' = multiple_testing_correction(ps, alpha, method, pvals_sortind)
              /\ locals' = [locals EXCEPT !.pvals_sortind = pvals_sortind]
    /\ pc' = "done"
    /\ UNCHANGED <<fn, ps, alpha, method, query, gene_sets, background>>

CallCalcPvalues ==
    /\ pc = "called" /\ fn = "calc_pvalues"
    /\ ret' = [outcome |-> "return",
               columns |-> calc_pvalues(query, gene_sets, background)]
    /\ locals' = [locals EXCEPT !.k = draw_size(query),
                                !.bg_num = bg_num_of(background),
                                !.subsets = subsets_of(gene_sets)]
    /\ pc' = "done"
    /\ UNCHANGED <<fn, ps, alpha, method, query, gene_sets, background>>

Next ==
    \/ CallFdrcorrection
    \/ CallMultipleTestingCorrection
    \/ CallCalcPvalues

Spec == Init /\ [][Next]_vars

(* ================================ claims =============================== *)
Done(f) == pc = "done" /\ fn = f

SetMin(S) == CHOOSE m \in S : \A x \in S : m <= x

\* threshold and quotient of sorted rank r among n values, as line 74 and
\* line 78 evaluate them
Threshold(r, n) == FMul(FDiv(float(r), float(n)), alpha)
Quotient(v, r, n) == FDiv(v, FDiv(float(r), float(n)))

\* sorted ranks whose own test p_sorted[r] <= (r/n)*alpha succeeds
Passing ==
    {r \in 1..Len(ps) : ps[locals.pvals_sortind[r]] <= Threshold(r, Len(ps))}

(* C1: for either method, multiple_testing_correction returns q and reject  *)
(* arrays of the input's length; at every NaN input index q is NaN and the  *)
(* reject flag is False (0.0 == False, NaN is not), and every non-NaN index *)
(* holds a number in q and a 0/1 flag in reject.                            *)
C1_NaNPassThrough ==
    (Done("multiple_testing_correction") /\ ret.outcome = "return") =>
        /\ Len(ret.q) = Len(ps)
        /\ Len(ret.rej) = Len(ps)
        /\ \A i \in 1..Len(ps) :
              IF isnan(ps[i])
              THEN isnan(ret.q[i]) /\ ret.rej[i] = 0
              ELSE ~isnan(ret.q[i]) /\ ret.rej[i] \in {0, One}

(* C2: Benjamini-Hochberg prefix law.  If some sorted rank passes its own   *)
(* test, exactly the ranks up to and including the last passing one are     *)
(* rejected; if none passes nothing is rejected; hence an entry is rejected *)
(* whenever an entry with a p-value at least as large is rejected.          *)
C2_PrefixLaw ==
    Done("fdrcorrection") =>
        LET ind == locals.pvals_sortind
        IN  /\ \A r \in 1..Len(ps) :
                  ret.reject_[ind[r]] <=>
                      (Passing # {} /\ r <= SetMax(Passing))
            /\ \A i, j \in 1..Len(ps) :
                  (ret.reject_[j] /\ ps[i] <= ps[j]) => ret.reject_[i]

\* a rank that fails its own test is rejected, and a later rank is not
C2_Witness ==
    /\ Done("fdrcorrection")
    /\ Passing # {}
    /\ \E r \in 1..Len(ps) : r < SetMax(Passing) /\ r \notin Passing
                              /\ ret.reject_[locals.pvals_sortind[r]]
    /\ \E r \in 1..Len(ps) : r > SetMax(Passing)
                              /\ ~ret.reject_[locals.pvals_sortind[r]]

(* C3: Benjamini-Hochberg monotonicity law.  p_i <= p_j implies q_i <= q_j, *)
(* and the q of sorted rank r is the minimum of p_sorted[s] / (s/n) over    *)
(* the ranks s >= r.                                                        *)
C3_Monotone ==
    Done("fdrcorrection") =>
        LET ind == locals.pvals_sortind
            n == Len(ps)
        IN  /\ \A i, j \in 1..n :
                  ps[i] <= ps[j] =>
                      ret.pvals_corrected_[i] <= ret.pvals_corrected_[j]
            /\ \A r \in 1..n :
                  ret.pvals_corrected_[ind[r]] =
                      SetMin({Quotient(ps[ind[s]], s, n) : s \in r..n})

\* the raw quotients are not monotone: the running minimum lowers a rank
C3_Witness ==
    /\ Done("fdrcorrection")
    /\ Len(ps) >= 3
    /\ \E r \in 1..(Len(ps) - 1) :
          LET ind == locals.pvals_sortind
          IN  /\ Quotient(ps[ind[r]], r, Len(ps))
                    > Quotient(ps[ind[r + 1]], r + 1, Len(ps))
              /\ ps[ind[r]] < ps[ind[r + 1]]

(* C4: Bonferroni.  With N the number of non-NaN entries, q_i = p_i * N at  *)
(* every non-NaN index, not clamped to 1, and the reject flag is set        *)
(* exactly when q_i < alpha.                                                *)
C4_Bonferroni ==
    (Done("multiple_testing_correction") /\ method = "bonferroni") =>
        LET N == Cardinality({i \in 1..Len(ps) : ~isnan(ps[i])})
        IN  /\ ret.outcome = "return"
            /\ \A i \in 1..Len(ps) :
                  ~isnan(ps[i]) =>
                      /\ ret.q[i] = FMul(ps[i], float(N))
                      /\ ret.rej[i] \in {0, One}
                      /\ (ret.rej[i] = One) <=> (ret.q[i] < alpha)

\* a NaN in the input, a q above 1, and a q equal to alpha that is accepted
C4_Witness ==
    /\ Done("multiple_testing_correction") /\ method = "bonferroni"
    /\ \E i, j, k \in 1..Len(ps) :
          /\ isnan(ps[i])
          /\ ~isnan(ps[j]) /\ ret.q[j] > One /\ ret.rej[j] = 0
          /\ ~isnan(ps[k]) /\ ret.q[k] < alpha /\ ret.rej[k] = One

(* C5: order-invariance of Benjamini-Hochberg.  Correcting the ascending    *)
(* sorted copy of the array gives every entry the q-value and reject flag   *)
(* it gets in the array as given, whichever way ties are aligned.           *)
C5_OrderInvariance ==
    Done("fdrcorrection") =>
        LET srt == take(ps, CHOOSE pi \in argsort(ps) : TRUE)
            \* the results for the sorted copy, one per tie order of its argsort
            OfSorted == {fdrcorrection(srt, alpha, ind2) : ind2 \in argsort(srt)}
            \* the result for the array as given, read in ascending p-value
            \* order, one per way of aligning the entries with the sorted copy
            Realigned == {[reject_ |-> take(ret.reject_, pi),
                           pvals_corrected_ |-> take(ret.pvals_corrected_, pi)] :
                             pi \in argsort(ps)}
        IN  \A a \in Realigned : \A b \in OfSorted : a = b

\* an unsorted array with a tie, part rejected and part accepted
C5_Witness ==
    /\ Done("fdrcorrection")
    /\ Len(ps) = 3
    /\ ps[1] > ps[2] /\ ps[2] = ps[3]
    /\ ret.reject_[2] /\ ~ret.reject_[1]
    /\ ret.pvals_corrected_[2] < ret.pvals_corrected_[1]

(* ---- calc_pvalues ---- *)
\* the category names strictly below s in lexicographic order
Below(s) == {t \in Range(keys(gene_sets)) : LexLess(t, s)}

\* the i-th smallest category name
NameAt(i) == CHOOSE s \in Range(keys(gene_sets)) : Cardinality(Below(s)) = i - 1

Min(a, b) == IF a < b THEN a ELSE b

\* every ordering of the items of the dict gs
Reorderings(gs) ==
    {take(gs, pi) : pi \in {f \in [1..Len(gs) -> 1..Len(gs)] :
                               \A i, j \in 1..Len(gs) : i # j => f[i] # f[j]}}

(* C6: calc_pvalues returns four sequences with one entry per category;     *)
(* entry i of each belongs to the i-th smallest category name, and the      *)
(* result is the same for every iteration order of the mapping.             *)
C6_SortedAlignment ==
    Done("calc_pvalues") =>
        LET n == Len(gene_sets)
            cols == ret.columns
        IN  /\ Len(cols) = 4
            /\ \A c \in 1..4 : Len(cols[c]) = n
            /\ \A i \in 1..n :
                  LET category == get(gene_sets, NameAt(i))
                      hits == Range(query) \cap Range(category)
                  IN  /\ cols[4][i] = hits
                      /\ cols[3][i] = Len(category)
                      /\ cols[2][i] = Cardinality(hits)
                      /\ cols[1][i] = hypergeom_sf(Cardinality(hits) - 1,
                                          locals.bg_num, Len(category), locals.k)
            /\ \A gs2 \in Reorderings(gene_sets) :
                  calc_pvalues(query, gs2, background) = cols

\* two categories given in descending name order, with different results
C6_Witness ==
    /\ Done("calc_pvalues")
    /\ Len(gene_sets) = 2
    /\ LexLess(gene_sets[2][1], gene_sets[1][1])
    /\ ret.columns[2][1] # ret.columns[2][2]
    /\ ret.columns[3][1] # ret.columns[3][2]
    /\ ret.columns[1][1] # ret.columns[1][2]

(* C7: the draw size k of every category's test is the number of distinct   *)
(* identifiers of the query, also when the query has duplicates, and        *)
(* x <= min(k, m) for every category.                                       *)
C7_DrawSizeDeduplicated ==
    Done("calc_pvalues") =>
        LET k == Cardinality(Range(query))
            cols == ret.columns
        IN  /\ locals.k = k
            /\ \A i \in 1..Len(gene_sets) :
                  /\ cols[1][i] = hypergeom_sf(cols[2][i] - 1, locals.bg_num,
                                               cols[3][i], k)
                  /\ cols[2][i] <= Min(k, cols[3][i])

(* C8: a method other than bonferroni and benjamini-hochberg ends the call  *)
(* with ValueError(method), without q-values or reject flags, and with the  *)
(* caller's p-value array as it was.                                        *)
C8_UnknownMethodRaises ==
    [][(pc = "called" /\ fn = "multiple_testing_correction"
          /\ method \notin {"bonferroni", "benjamini-hochberg"}) =>
        /\ ret'.outcome = "raise"
        /\ ret'.exc = "ValueError"
        /\ ret'.arg = method
        /\ DOMAIN ret' = {"outcome", "exc", "arg"}
        /\ ps' = ps]_vars

C8_Witness ==
    /\ Done("multiple_testing_correction")
    /\ method = "holm"
    /\ Len(ps) = MaxLen
    /\ \E i, j \in 1..Len(ps) : isnan(ps[i]) /\ ~isnan(ps[j])
    /\ ret.outcome = "raise"

(* C9: every category with no overlap with the query (x = 0), an empty      *)
(* category and an empty query included, gets p-value exactly 1.0.          *)
C9_NoOverlapIsOne ==
    Done("calc_pvalues") =>
        \A i \in 1..Len(gene_sets) :
            ret.columns[2][i] = 0 => ret.columns[1][i] = One

(* ---- Benjamini-Hochberg decisions against q-values ---- *)
\* no threshold and no quotient of the call is rounded
ExactArithmetic ==
    \A r \in 1..Len(ps) :
        LET e == FDiv(float(r), float(Len(ps)))
            v == ps[locals.pvals_sortind[r]]
        IN  /\ (e * alpha) % One = 0
            /\ FMul(e, alpha) = (e * alpha) \div One
            /\ (v * One) % e = 0
            /\ FDiv(v, e) = (v * One) \div e

QWithinBounds ==
    \A i \in 1..Len(ps) :
        ps[i] <= ret.pvals_corrected_[i] /\ ret.pvals_corrected_[i] <= One

DecisionsAgree ==
    \A i \in 1..Len(ps) : ret.reject_[i] <=> (ret.pvals_corrected_[i] <= alpha)

(* C10 as stated: for p-values in [0,1] and 0 < alpha <= 1, entry i is      *)
(* rejected if and only if its q-value is <= alpha, and p_i <= q_i <= 1.    *)
C10_DecisionsAgreeWithQ ==
    (Done("fdrcorrection") /\ 0 < alpha /\ alpha <= One) =>
        DecisionsAgree /\ QWithinBounds

(* C10 amended: p_i <= q_i <= 1 always; entry i is rejected if and only if  *)
(* q_i <= alpha whenever no threshold (r/n)*alpha and no quotient           *)
(* p_sorted[r]/(r/n) of the call is rounded.                                *)
C10_DecisionsAgreeWhenExact ==
    (Done("fdrcorrection") /\ 0 < alpha /\ alpha <= One) =>
        /\ QWithinBounds
        /\ (ExactArithmetic => DecisionsAgree)

\* exact arithmetic, a p-value on the threshold, a rejection and an acceptance
C10_Witness ==
    /\ Done("fdrcorrection") /\ 0 < alpha /\ alpha <= One
    /\ ExactArithmetic
    /\ \E r \in 1..Len(ps) :
          ps[locals.pvals_sortind[r]] = Threshold(r, Len(ps))
    /\ \E i, j \in 1..Len(ps) : ret.reject_[i] /\ ~ret.reject_[j]

====
